---- MODULE Spec2Model ----
(***************************************************************************)
(* Model of scripts/export_onnx.py: the command-line tool that exports the *)
(* acoustic model and the vocoder of a MeloTTS checkpoint directory to     *)
(* ONNX and copies lexicon.txt and phonemes.txt beside them.               *)
(*                                                                         *)
(* One behaviour is a sequence of runs of the tool (one process each) with *)
(* the same arguments over the same input directory.  The environment is   *)
(* deterministic: whether a library call (an import, from_pretrained, .to, *)
(* torch.onnx.export, shutil.copy) raises is chosen the first time the     *)
(* call is made and is the same on every later run (env).  The arguments   *)
(* are valid and the output directory can be created.                      *)
(***************************************************************************)
EXTENDS Integers, Sequences, FiniteSets, TLC

\* number of consecutive runs of the tool in one behaviour
MaxRuns == 2

----------------------------------------------------------------------------
\* names on disk

AcousticPt   == "acoustic_model.pt"
VocoderPt    == "vocoder.pt"
AcousticOnnx == "acoustic_model.onnx"
VocoderOnnx  == "vocoder.onnx"
Lexicon      == "lexicon.txt"
Phonemes     == "phonemes.txt"

\* the list the copy loop iterates over, in its order
AuxFiles == <<Lexicon, Phonemes>>
AuxNames == {AuxFiles[k] : k \in DOMAIN AuxFiles}

InNames  == {AcousticPt, VocoderPt} \cup AuxNames
OutNames == {AcousticOnnx, VocoderOnnx} \cup AuxNames

\* values of --device: two devices torch knows and a string it rejects
Devices == {"cpu", "cuda", "bogus"}

\* file contents are sequences of tokens; no file has the empty content
Absent   == << >>
Stale    == <<"stale">>
Data(n)  == <<"data", n>>
Onnx(ck) == <<"onnx", ck>>

----------------------------------------------------------------------------
\* the library calls that can raise

ImportPrimaryAcoustic == "models.acoustic_model"
ImportPrimaryVocoder  == "models.vocoder"
ImportAltAcoustic     == "acoustic_model"
ImportAltVocoder      == "vocoder"
ImportSteps == {ImportPrimaryAcoustic, ImportPrimaryVocoder,
                ImportAltAcoustic, ImportAltVocoder}

CopyStep(f)   == "copy:" \o f
AcousticSteps == {"acoustic.from_pretrained", "acoustic.to", "acoustic.export"}
VocoderSteps  == {"vocoder.from_pretrained", "vocoder.to", "vocoder.export"}
CopySteps     == {CopyStep(f) : f \in AuxNames}
Steps == ImportSteps \cup {"torch.device"} \cup AcousticSteps
            \cup VocoderSteps \cup CopySteps

\* an import ends normally, with ImportError, or with another Exception;
\* every other call ends normally or with an Exception
Outcomes(s) == IF s \in ImportSteps THEN {"ok", "ImportError", "Exception"}
               ELSE {"ok", "Exception"}

VARIABLES
    inDirExists,  \* --input_dir names an existing directory
    inDir,        \* the names of InNames present in it
    device,       \* --device
    outDirExists, \* --output_dir exists
    outDir,       \* content of each name of OutNames in it (Absent if none)
    env,          \* outcome of each library call, "?" until first made
    run,          \* number of the current run
    pc,           \* position of the current run
    i,            \* index of the copy loop in AuxFiles
    ret,          \* what export_models returned: "none", "True", "False"
    exitStatus,   \* exit status of the process, -1 while it runs
    raised,       \* the call whose exception reached the handler, or "none"
    trace,        \* the calls made, warnings printed and handler entries of this run
    written,      \* names written in the output directory by this run
    warned,       \* names this run printed a not-found warning for
    startOut,     \* outDir when this run started
    prevExit      \* exit status of the previous run, -1 in the first

vars == <<inDirExists, inDir, device, outDirExists, outDir, env, run, pc, i,
          ret, exitStatus, raised, trace, written, warned, startOut, prevExit>>

fsIn   == <<inDirExists, inDir, device>>
runLog == <<written, warned>>
result == <<ret, exitStatus>>
hist   == <<run, startOut, prevExit>>

----------------------------------------------------------------------------
Init ==
    /\ inDirExists \in BOOLEAN
    /\ inDir \in (IF inDirExists THEN SUBSET InNames ELSE {{}})
    /\ device \in Devices
    /\ outDirExists \in BOOLEAN
    /\ \E old \in (IF outDirExists THEN SUBSET OutNames ELSE {{}}) :
          outDir = [n \in OutNames |-> IF n \in old THEN Stale ELSE Absent]
    /\ env = [s \in Steps |-> "?"]
    /\ run = 1
    /\ pc = "makedirs"
    /\ i = 1
    /\ ret = "none"
    /\ exitStatus = -1
    /\ raised = "none"
    /\ trace = << >>
    /\ written = {}
    /\ warned = {}
    /\ startOut = outDir
    /\ prevExit = -1

\* os.path.exists(os.path.join(args.input_dir, n))
Exists(n) == inDirExists /\ n \in inDir

\* the call s is made and ends with outcome o, as on every other run
Attempt(s, o) ==
    /\ o \in Outcomes(s)
    /\ env[s] \in {"?", o}
    /\ env' = [env EXCEPT ![s] = o]
    /\ trace' = Append(trace, s)

\* faulty variant of WriteFile: the file is opened for appending
WriteFileAppend(n, d) ==
    /\ outDir' = [outDir EXCEPT ![n] = outDir[n] \o d]
    /\ written' = written \cup {n}

\* the file named n of the output directory is created or truncated and d written
WriteFile(n, d) ==
    /\ outDir' = [outDir EXCEPT ![n] = d]
    /\ written' = written \cup {n}

\* print of a not-found warning for n
Warn(n) ==
    /\ warned' = warned \cup {n}
    /\ trace' = Append(trace, "warn:" \o n)

----------------------------------------------------------------------------
\* export_models, one action per statement that can raise or branch

\* os.makedirs(args.output_dir, exist_ok=True); sys.path.append(...)
MakeDirs ==
    /\ pc = "makedirs"
    /\ outDirExists' = TRUE
    /\ pc' = "import_primary_acoustic"
    /\ UNCHANGED <<fsIn, outDir, env, i, result, raised, trace, runLog, hist>>

\* from models.acoustic_model import AcousticModel, inside the inner try
ImportModelsAcoustic ==
    /\ pc = "import_primary_acoustic"
    /\ \E o \in Outcomes(ImportPrimaryAcoustic) :
          /\ Attempt(ImportPrimaryAcoustic, o)
          /\ pc' = CASE o = "ok" -> "import_primary_vocoder"
                     [] o = "ImportError" -> "import_alt_acoustic"
                     [] OTHER -> "except"
          /\ raised' = IF o = "Exception" THEN ImportPrimaryAcoustic ELSE raised
    /\ UNCHANGED <<fsIn, outDirExists, outDir, i, result, runLog, hist>>

\* from models.vocoder import Vocoder, inside the inner try
ImportModelsVocoder ==
    /\ pc = "import_primary_vocoder"
    /\ \E o \in Outcomes(ImportPrimaryVocoder) :
          /\ Attempt(ImportPrimaryVocoder, o)
          /\ pc' = CASE o = "ok" -> "device"
                     [] o = "ImportError" -> "import_alt_acoustic"
                     [] OTHER -> "except"
          /\ raised' = IF o = "Exception" THEN ImportPrimaryVocoder ELSE raised
    /\ UNCHANGED <<fsIn, outDirExists, outDir, i, result, runLog, hist>>

\* except ImportError: from acoustic_model import AcousticModel
ImportAcoustic ==
    /\ pc = "import_alt_acoustic"
    /\ \E o \in Outcomes(ImportAltAcoustic) :
          /\ Attempt(ImportAltAcoustic, o)
          /\ pc' = IF o = "ok" THEN "import_alt_vocoder" ELSE "except"
          /\ raised' = IF o = "ok" THEN raised ELSE ImportAltAcoustic
    /\ UNCHANGED <<fsIn, outDirExists, outDir, i, result, runLog, hist>>

\* except ImportError: from vocoder import Vocoder
ImportVocoder ==
    /\ pc = "import_alt_vocoder"
    /\ \E o \in Outcomes(ImportAltVocoder) :
          /\ Attempt(ImportAltVocoder, o)
          /\ pc' = IF o = "ok" THEN "device" ELSE "except"
          /\ raised' = IF o = "ok" THEN raised ELSE ImportAltVocoder
    /\ UNCHANGED <<fsIn, outDirExists, outDir, i, result, runLog, hist>>

\* faulty variant of ResolveDevice: the vocoder block placed before the
\* acoustic block
ResolveDeviceVocoderFirst ==
    /\ pc = "device"
    /\ Attempt("torch.device", IF device = "bogus" THEN "Exception" ELSE "ok")
    /\ pc' = IF device = "bogus" THEN "except" ELSE "vocoder_check"
    /\ raised' = IF device = "bogus" THEN "torch.device" ELSE raised
    /\ UNCHANGED <<fsIn, outDirExists, outDir, i, result, runLog, hist>>

\* device = torch.device(args.device): raises on a string torch rejects
ResolveDevice ==
    /\ pc = "device"
    /\ Attempt("torch.device", IF device = "bogus" THEN "Exception" ELSE "ok")
    /\ pc' = IF device = "bogus" THEN "except" ELSE "acoustic_check"
    /\ raised' = IF device = "bogus" THEN "torch.device" ELSE raised
    /\ UNCHANGED <<fsIn, outDirExists, outDir, i, result, runLog, hist>>

\* if os.path.exists(acoustic_model_path): ... else: print warning
AcousticCheck ==
    /\ pc = "acoustic_check"
    /\ IF Exists(AcousticPt)
         THEN /\ pc' = "acoustic_load"
              /\ UNCHANGED <<trace, warned>>
         ELSE /\ Warn(AcousticPt)
              /\ pc' = "vocoder_check"
    /\ UNCHANGED <<fsIn, outDirExists, outDir, env, i, result, raised, written, hist>>

\* acoustic_model = AcousticModel.from_pretrained(acoustic_model_path)
AcousticLoad ==
    /\ pc = "acoustic_load"
    /\ \E o \in Outcomes("acoustic.from_pretrained") :
          /\ Attempt("acoustic.from_pretrained", o)
          /\ pc' = IF o = "ok" THEN "acoustic_to" ELSE "except"
          /\ raised' = IF o = "ok" THEN raised ELSE "acoustic.from_pretrained"
    /\ UNCHANGED <<fsIn, outDirExists, outDir, i, result, runLog, hist>>

\* faulty variant of AcousticTo: the exception is swallowed by a handler
\* around the acoustic block and the run goes on with the vocoder
AcousticToSwallowed ==
    /\ pc = "acoustic_to"
    /\ \E o \in Outcomes("acoustic.to") :
          /\ Attempt("acoustic.to", o)
          /\ pc' = IF o = "ok" THEN "acoustic_export" ELSE "vocoder_check"
          /\ raised' = IF o = "ok" THEN raised ELSE "acoustic.to"
    /\ UNCHANGED <<fsIn, outDirExists, outDir, i, result, runLog, hist>>

\* acoustic_model.to(device)
AcousticTo ==
    /\ pc = "acoustic_to"
    /\ \E o \in Outcomes("acoustic.to") :
          /\ Attempt("acoustic.to", o)
          /\ pc' = IF o = "ok" THEN "acoustic_export" ELSE "except"
          /\ raised' = IF o = "ok" THEN raised ELSE "acoustic.to"
    /\ UNCHANGED <<fsIn, outDirExists, outDir, i, result, runLog, hist>>

\* export_acoustic_model(acoustic_model, <output_dir>/acoustic_model.onnx, device)
ExportAcousticModel ==
    /\ pc = "acoustic_export"
    /\ \E o \in Outcomes("acoustic.export") :
          /\ Attempt("acoustic.export", o)
          /\ IF o = "ok"
               THEN /\ WriteFile(AcousticOnnx, Onnx(AcousticPt))
                    /\ pc' = "vocoder_check"
                    /\ UNCHANGED raised
               ELSE /\ pc' = "except"
                    /\ raised' = "acoustic.export"
                    /\ UNCHANGED <<outDir, written>>
    /\ UNCHANGED <<fsIn, outDirExists, i, result, warned, hist>>

\* faulty variant of VocoderCheck: a missing vocoder.pt is raised as an error
VocoderCheckFatal ==
    /\ pc = "vocoder_check"
    /\ IF Exists(VocoderPt)
         THEN /\ pc' = "vocoder_load"
              /\ UNCHANGED <<trace, warned>>
         ELSE /\ Warn(VocoderPt)
              /\ pc' = "except"
    /\ UNCHANGED <<fsIn, outDirExists, outDir, env, i, result, raised, written, hist>>

\* if os.path.exists(vocoder_path): ... else: print warning
VocoderCheck ==
    /\ pc = "vocoder_check"
    /\ IF Exists(VocoderPt)
         THEN /\ pc' = "vocoder_load"
              /\ UNCHANGED <<trace, warned>>
         ELSE /\ Warn(VocoderPt)
              /\ pc' = "copy"
    /\ UNCHANGED <<fsIn, outDirExists, outDir, env, i, result, raised, written, hist>>

\* vocoder = Vocoder.from_pretrained(vocoder_path)
VocoderLoad ==
    /\ pc = "vocoder_load"
    /\ \E o \in Outcomes("vocoder.from_pretrained") :
          /\ Attempt("vocoder.from_pretrained", o)
          /\ pc' = IF o = "ok" THEN "vocoder_to" ELSE "except"
          /\ raised' = IF o = "ok" THEN raised ELSE "vocoder.from_pretrained"
    /\ UNCHANGED <<fsIn, outDirExists, outDir, i, result, runLog, hist>>

\* vocoder.to(device)
VocoderTo ==
    /\ pc = "vocoder_to"
    /\ \E o \in Outcomes("vocoder.to") :
          /\ Attempt("vocoder.to", o)
          /\ pc' = IF o = "ok" THEN "vocoder_export" ELSE "except"
          /\ raised' = IF o = "ok" THEN raised ELSE "vocoder.to"
    /\ UNCHANGED <<fsIn, outDirExists, outDir, i, result, runLog, hist>>

\* faulty variant of ExportVocoder: the output path of the acoustic model
\* is passed
ExportVocoderWrongPath ==
    /\ pc = "vocoder_export"
    /\ \E o \in Outcomes("vocoder.export") :
          /\ Attempt("vocoder.export", o)
          /\ IF o = "ok"
               THEN /\ WriteFile(AcousticOnnx, Onnx(VocoderPt))
                    /\ pc' = "copy"
                    /\ UNCHANGED raised
               ELSE /\ pc' = "except"
                    /\ raised' = "vocoder.export"
                    /\ UNCHANGED <<outDir, written>>
    /\ UNCHANGED <<fsIn, outDirExists, i, result, warned, hist>>

\* export_vocoder(vocoder, <output_dir>/vocoder.onnx, device)
ExportVocoder ==
    /\ pc = "vocoder_export"
    /\ \E o \in Outcomes("vocoder.export") :
          /\ Attempt("vocoder.export", o)
          /\ IF o = "ok"
               THEN /\ WriteFile(VocoderOnnx, Onnx(VocoderPt))
                    /\ pc' = "copy"
                    /\ UNCHANGED raised
               ELSE /\ pc' = "except"
                    /\ raised' = "vocoder.export"
                    /\ UNCHANGED <<outDir, written>>
    /\ UNCHANGED <<fsIn, outDirExists, i, result, warned, hist>>

\* faulty variant of CopyAux: each copy has its own handler, so the loop
\* goes on after a copy raised
CopyAuxKeepGoing ==
    /\ pc = "copy"
    /\ i <= Len(AuxFiles)
    /\ LET f == AuxFiles[i] IN
         IF Exists(f)
           THEN /\ \E o \in Outcomes(CopyStep(f)) :
                     /\ Attempt(CopyStep(f), o)
                     /\ IF o = "ok"
                          THEN /\ WriteFile(f, Data(f))
                               /\ UNCHANGED raised
                          ELSE /\ raised' = CopyStep(f)
                               /\ UNCHANGED <<outDir, written>>
                /\ i' = i + 1
                /\ UNCHANGED <<pc, warned>>
           ELSE /\ Warn(f)
                /\ i' = i + 1
                /\ UNCHANGED <<outDir, written, env, pc, raised>>
    /\ UNCHANGED <<fsIn, outDirExists, result, hist>>

\* faulty variant of CopyAux: the loop is left at the first missing file
CopyAuxStopAtMissing ==
    /\ pc = "copy"
    /\ i <= Len(AuxFiles)
    /\ LET f == AuxFiles[i] IN
         IF Exists(f)
           THEN /\ \E o \in Outcomes(CopyStep(f)) :
                     /\ Attempt(CopyStep(f), o)
                     /\ IF o = "ok"
                          THEN /\ WriteFile(f, Data(f))
                               /\ i' = i + 1
                               /\ UNCHANGED <<pc, raised>>
                          ELSE /\ pc' = "except"
                               /\ raised' = CopyStep(f)
                               /\ UNCHANGED <<outDir, written, i>>
                /\ UNCHANGED warned
           ELSE /\ Warn(f)
                /\ i' = Len(AuxFiles) + 1
                /\ UNCHANGED <<outDir, written, env, pc, raised>>
    /\ UNCHANGED <<fsIn, outDirExists, result, hist>>

\* one iteration of: for file_name in ["lexicon.txt", "phonemes.txt"]
CopyAux ==
    /\ pc = "copy"
    /\ i <= Len(AuxFiles)
    /\ LET f == AuxFiles[i] IN
         IF Exists(f)
           THEN /\ \E o \in Outcomes(CopyStep(f)) :
                     /\ Attempt(CopyStep(f), o)
                     /\ IF o = "ok"
                          THEN /\ WriteFile(f, Data(f))
                               /\ i' = i + 1
                               /\ UNCHANGED <<pc, raised>>
                          ELSE /\ pc' = "except"
                               /\ raised' = CopyStep(f)
                               /\ UNCHANGED <<outDir, written, i>>
                /\ UNCHANGED warned
           ELSE /\ Warn(f)
                /\ i' = i + 1
                /\ UNCHANGED <<outDir, written, env, pc, raised>>
    /\ UNCHANGED <<fsIn, outDirExists, result, hist>>

\* faulty variant of Except: the handler removes what the run wrote
ExceptRollback ==
    /\ pc = "except"
    /\ trace' = Append(trace, "except")
    /\ ret' = "False"
    /\ pc' = "main"
    /\ outDir' = [n \in OutNames |-> IF n \in written THEN Absent ELSE outDir[n]]
    /\ UNCHANGED <<fsIn, outDirExists, env, i, exitStatus, raised, runLog, hist>>

\* except Exception as e: print, traceback.print_exc(), return False
Except ==
    /\ pc = "except"
    /\ trace' = Append(trace, "except")
    /\ ret' = "False"
    /\ pc' = "main"
    /\ UNCHANGED <<fsIn, outDirExists, outDir, env, i, exitStatus, raised, runLog, hist>>

\* the loop is over: return True
ReturnTrue ==
    /\ pc = "copy"
    /\ i > Len(AuxFiles)
    /\ ret' = "True"
    /\ pc' = "main"
    /\ UNCHANGED <<fsIn, outDirExists, outDir, env, i, exitStatus, raised, trace, runLog, hist>>

\* faulty variant of Main: the failure branch prints and falls off the end
MainExitsZero ==
    /\ pc = "main"
    /\ exitStatus' = 0
    /\ pc' = "done"
    /\ UNCHANGED <<fsIn, outDirExists, outDir, env, i, ret, raised, trace, runLog, hist>>

\* if export_models(args): print ... else: print ...; sys.exit(1)
Main ==
    /\ pc = "main"
    /\ exitStatus' = IF ret = "True" THEN 0 ELSE 1
    /\ pc' = "done"
    /\ UNCHANGED <<fsIn, outDirExists, outDir, env, i, ret, raised, trace, runLog, hist>>

\* the tool is started again with the same arguments
Rerun ==
    /\ pc = "done"
    /\ run < MaxRuns
    /\ run' = run + 1
    /\ startOut' = outDir
    /\ prevExit' = exitStatus
    /\ pc' = "makedirs"
    /\ i' = 1
    /\ ret' = "none"
    /\ exitStatus' = -1
    /\ raised' = "none"
    /\ trace' = << >>
    /\ written' = {}
    /\ warned' = {}
    /\ UNCHANGED <<fsIn, outDirExists, outDir, env>>

Next ==
    \/ MakeDirs
    \/ ImportModelsAcoustic
    \/ ImportModelsVocoder
    \/ ImportAcoustic
    \/ ImportVocoder
    \/ ResolveDevice
    \/ AcousticCheck
    \/ AcousticLoad
    \/ AcousticTo
    \/ ExportAcousticModel
    \/ VocoderCheck
    \/ VocoderLoad
    \/ VocoderTo
    \/ ExportVocoder
    \/ CopyAux
    \/ Except
    \/ ReturnTrue
    \/ Main
    \/ Rerun

Spec == Init /\ [][Next]_vars

----------------------------------------------------------------------------
Done == pc = "done"

TypeOK ==
    /\ pc \in {"makedirs", "import_primary_acoustic", "import_primary_vocoder",
               "import_alt_acoustic", "import_alt_vocoder", "device",
               "acoustic_check", "acoustic_load", "acoustic_to", "acoustic_export",
               "vocoder_check", "vocoder_load", "vocoder_to", "vocoder_export",
               "copy", "except", "main", "done"}
    /\ run \in 1..MaxRuns
    /\ i \in 1..(Len(AuxFiles) + 1)
    /\ ret \in {"none", "True", "False"}
    /\ exitStatus \in {-1, 0, 1}
    /\ raised \in Steps \cup {"none"}
    /\ written \subseteq OutNames
    /\ warned \subseteq InNames

----------------------------------------------------------------------------
\* vocabulary of the properties

InTrace(e) == \E k \in DOMAIN trace : trace[k] = e
Count(e)   == Cardinality({k \in DOMAIN trace : trace[k] = e})

\* an outcome of call s that leaves the try block: any Exception, and an
\* ImportError of the fallback imports (the one of the primary imports is
\* handled by the inner except clause)
Propagates(s) ==
    \/ env[s] = "Exception"
    \/ env[s] = "ImportError" /\ s \in {ImportAltAcoustic, ImportAltVocoder}

\* a step of this run failed
RunFailed == \E k \in DOMAIN trace : trace[k] \in Steps /\ Propagates(trace[k])

\* the iteration of the copy loop for f began
Reached(f) == InTrace(CopyStep(f)) \/ InTrace("warn:" \o f)

\* what a successful export or copy leaves under the name n
Produced(n) ==
    CASE n = AcousticOnnx -> Onnx(AcousticPt)
      [] n = VocoderOnnx  -> Onnx(VocoderPt)
      [] OTHER            -> Data(n)

Succeeded == ret = "True" /\ exitStatus = 0
FailedRun == ret = "False" /\ exitStatus = 1

AcousticFinished == AcousticOnnx \in written \/ AcousticPt \in warned
VocoderFinished  == VocoderOnnx \in written \/ VocoderPt \in warned
VocoderStarted   == (\E s \in VocoderSteps : InTrace(s)) \/ VocoderPt \in warned
AcousticStarted  == (\E s \in AcousticSteps : InTrace(s)) \/ AcousticPt \in warned

AllWritten ==
    /\ written = OutNames
    /\ \A n \in OutNames : outDir[n] = Produced(n)

----------------------------------------------------------------------------
\* C1 as stated: when the four input files exist and no import, load or
\* export step raises (nothing before the copy stage raises), the finished
\* run has written both graphs, copied both text files, returned True and
\* exited 0.  Refuted by a run in which shutil.copy raises.
C1_Stated ==
    (Done /\ inDirExists /\ inDir = InNames /\ raised \notin (Steps \ CopySteps))
        => (AllWritten /\ Succeeded)

\* C1 amended: when the four input files exist and no step of the run raises
\* (import, device, load, device move, export or copy), the finished run has
\* written both graphs, copied both text files, returned True and exited 0.
C1_AllPresentNoRaise ==
    (Done /\ inDirExists /\ inDir = InNames /\ ~RunFailed)
        => (AllWritten /\ Succeeded)

C1_Witness ==
    Done /\ inDir = InNames /\ ~RunFailed /\ written = OutNames
         /\ startOut[VocoderOnnx] = Stale

\* C2 as stated: whenever acoustic_model.pt exists and vocoder.pt does not,
\* the finished run wrote acoustic_model.onnx, wrote no vocoder.onnx, warned
\* about the vocoder, returned True and exited 0.  Refuted by a run in which
\* an import or the acoustic load raises.
C2_Stated ==
    (Done /\ Exists(AcousticPt) /\ ~Exists(VocoderPt))
        => /\ AcousticOnnx \in written
           /\ VocoderOnnx \notin written
           /\ VocoderPt \in warned
           /\ Succeeded

\* C2 amended: the same, for the runs in which no step raises.
C2_MissingVocoderNoRaise ==
    (Done /\ Exists(AcousticPt) /\ ~Exists(VocoderPt) /\ ~RunFailed)
        => /\ AcousticOnnx \in written
           /\ outDir[AcousticOnnx] = Produced(AcousticOnnx)
           /\ VocoderOnnx \notin written
           /\ outDir[VocoderOnnx] = startOut[VocoderOnnx]
           /\ VocoderPt \in warned
           /\ Succeeded

C2_Witness ==
    Done /\ Exists(AcousticPt) /\ ~Exists(VocoderPt) /\ ~RunFailed
         /\ AcousticOnnx \in written /\ VocoderPt \in warned

\* C3: every finished run whose input directory does not exist returned
\* False and exited 1.  Refuted by a run in which the model classes are
\* importable from another entry of sys.path.
C3_Stated ==
    (Done /\ ~inDirExists) => FailedRun

C5_Stated ==
    (Done /\ raised = CopyStep(Lexicon) /\ Exists(Phonemes))
        => (Reached(Phonemes) /\ FailedRun)

\* C5 amended: when copying lexicon.txt raises, the copy loop is abandoned:
\* the iteration for phonemes.txt never begins, phonemes.txt in the output
\* directory is as it was when the run started, and the run reports failure.
C5_CopyRaiseAbortsLoop ==
    (Done /\ raised = CopyStep(Lexicon))
        => /\ ~Reached(Phonemes)
           /\ Phonemes \notin written
           /\ outDir[Phonemes] = startOut[Phonemes]
           /\ FailedRun

C5_Witness ==
    Done /\ raised = CopyStep(Lexicon) /\ Exists(Phonemes) /\ exitStatus = 1

\* C6: no call is made twice in a run and the handler runs at most once (no
\* retry); every file the run wrote holds what was written, also after the
\* handler ran (no rollback).
C6_NoRetryNoRollback ==
    /\ \A s \in Steps : Count(s) <= 1
    /\ Count("except") <= 1
    /\ \A n \in written : outDir[n] = Produced(n)
    /\ \A n \in OutNames \ written : outDir[n] = startOut[n]

C6_Witness ==
    Done /\ raised \in VocoderSteps /\ AcousticOnnx \in written
         /\ startOut[AcousticOnnx] = Absent /\ exitStatus = 1

\* C7 as stated: once the copy stage is reached, each of the two text files
\* is copied iff it exists in the input directory, a missing one is warned
\* about, and the run does not fail.
C7_Stated ==
    (Done /\ Reached(Lexicon))
        => \A f \in AuxNames :
              /\ (f \in written) <=> Exists(f)
              /\ ~Exists(f) => (f \in warned /\ Succeeded)

\* C7 amended: once the copy stage is reached and no copy raises, each of
\* the two text files is copied verbatim iff it exists in the input
\* directory, a missing one is warned about and left as it was, and the run
\* succeeds; each file's fate depends on its own existence only.
C7_CopiedIffExists ==
    (Done /\ Reached(Lexicon) /\ raised \notin CopySteps)
        => /\ \A f \in AuxNames :
                 /\ (f \in written) <=> Exists(f)
                 /\ Exists(f) => outDir[f] = Data(f)
                 /\ ~Exists(f) => (f \in warned /\ outDir[f] = startOut[f])
                 /\ Reached(f)
           /\ Succeeded

C7_Witness ==
    Done /\ Reached(Lexicon) /\ ~Exists(Lexicon) /\ Exists(Phonemes)
         /\ Phonemes \in written /\ Lexicon \in warned

C9_StageOrder ==
    /\ AcousticStarted => InTrace("torch.device")
    /\ VocoderStarted => AcousticFinished
    /\ \A f \in AuxNames : Reached(f) => (AcousticFinished /\ VocoderFinished)
    /\ Reached(Phonemes) => Reached(Lexicon)
    /\ (exitStatus # -1) =>
          \/ \A f \in AuxNames : Reached(f)
          \/ InTrace("except")

C9_Witness ==
    Done /\ VocoderOnnx \in written /\ AcousticOnnx \in written
         /\ Phonemes \in written /\ Lexicon \in warned

\* C10: after a call raised into the handler, the run makes no further call
\* and prints no further warning; if an import raised, the output directory
\* is as the run found it; if the acoustic stage raised, the run did not
\* start the vocoder stage and copied neither text file.
C10_FirstExceptionEndsRun ==
    (raised # "none") =>
        /\ \A k \in DOMAIN trace : trace[k] = raised =>
              \A j \in DOMAIN trace : j > k => trace[j] = "except"
        /\ pc \in {"except", "main", "done"}
        /\ (raised \in ImportSteps) => (written = {} /\ outDir = startOut)
        /\ (raised \in AcousticSteps) =>
              /\ ~VocoderStarted
              /\ written \subseteq {AcousticOnnx}
              /\ \A n \in OutNames \ {AcousticOnnx} : outDir[n] = startOut[n]
              /\ \A f \in AuxNames : ~Reached(f)

C10_Witness ==
    Done /\ raised = "acoustic.to" /\ Exists(VocoderPt)
         /\ Exists(Lexicon) /\ Exists(Phonemes) /\ written = {}

====
